---- MODULE Spec2Model ----
(***************************************************************************)
(* The round orchestrator of go-sqlancer (pkg/sqlancer/sqlancer.go):       *)
(* SQLancer.Start / run / refreshDatabase / progress, with the oracles'    *)
(* verdict functions.  The database, the generator, the transformer and    *)
(* the known-bug filter are the environment: every result they hand back   *)
(* is drawn from a small set.                                              *)
(***************************************************************************)
EXTENDS Integers, Sequences, FiniteSets, TLC

\* ---- program constants -------------------------------------------------
BatchSize == 100

approachPQS == 0

approachNoREC == 1

approachTLP == 2

\* ---- bounds of the model -----------------------------------------------
MaxBatch == 2

MaxViewCount == 1

MaxTables == 1

MaxRows == 1

MaxGroups == 2

MaxNodes == 2

MaxTuples == 2

MaxIndexes == 1

MaxRecords == 2

\* the rounds of a batch that are followed statement by statement
MaxRound == 3

\* ---- state -------------------------------------------------------------
VARIABLES
    conf,          \* *Config: ViewCount, Silent, Enable{PQS,NoREC,TLP}Approach
    batch,         \* SQLancer.batch
    roundInBatch,  \* SQLancer.roundInBatch
    pc,            \* position of the goroutine that runs Start
    cancelled,     \* ctx.Done() is closed
    closed,        \* number of executor.Close() calls
    refreshes,     \* number of refreshDatabase invocations
    batchAtTop,    \* value of batch at the top of the current loop iteration
    approach,      \* approach picked by the current round (-1: none yet)
    used,          \* len(reallyUsed) of the current PQS round (-1: not sampled)
    calls,         \* collaborator calls made by the current round, in order
    verdict,       \* verdict of the last check of the current round
    connErr,       \* statement of the current round the connection failed on
    groupsLeft,    \* groups of nodesGroup not yet iterated (NoREC/TLP)
    txnOpen,       \* withTxn has issued Begin and not yet Commit
    viewCalls,     \* CreateViewBySelect calls since the last refreshDatabase
    TablesAsOf,    \* p.Tables was last rebuilt (LoadSchema) after that many
                   \* CreateViewBySelect calls of the batch
    cacheAsOf      \* the executor's cache was last rebuilt (ReloadSchema) after
                   \* that many calls

\* the state refreshDatabase works on, statement by statement
VARIABLES
    inWrite,       \* SQLancer.inWrite: "free", "read" or "write"
    index,         \* createSchema: number of range iterations started
    columnTypes,   \* createSchema: the range variable, a column-type tuple
    worker,        \* createSchema: the goroutines handed to g.Go
    dbTables,      \* tables and views of the database under test
    cache,         \* names of the tables of the executor's cache (e.tables)
    Tables,        \* p.Tables, the generator's table list
    rows,          \* row count of every table of the database
    todo,          \* populateData: tables of the range still to come
    cur,           \* populateData: the range variable table ({} outside)
    dmlLeft,       \* populateData: i of the UPDATE/DELETE loop
    inserts,       \* INSERTs that populateData has executed, per table
    begins,        \* Begin calls that returned nil since the last Lock
    commits,       \* Commit calls since the last Lock
    stmtFailed,    \* a statement or a generation of populateData has failed
    ddlFailed,     \* what has failed of the CREATE INDEX loop of createSchema
    idxDone        \* createSchema: i of the CREATE INDEX loop

refreshVars == <<inWrite, index, columnTypes, worker, dbTables, cache, Tables,
                 rows, todo, cur, dmlLeft, inserts, begins, commits,
                 stmtFailed, ddlFailed, idxDone>>

\* the state of Executor.reloadSchema and Executor.loadSchema
VARIABLES
    records,       \* the catalogue records FetchSchema hands back
    tables,        \* Executor.tables, keyed as the code keys it
    indexes,       \* reloadSchema: the map indexes
    rec,           \* position of the range over the records
    reloadErr,     \* reloadSchema has returned an error
    before         \* Executor.tables when reloadSchema was called

executorVars == <<records, tables, indexes, rec, reloadErr, before>>

\* one round of progress, statement by statement
VARIABLES
    usedTables,    \* the table list last handed to the generator
    snap,          \* p.Tables and the cache as they were at RLock
    txn,           \* withTxn of the round: "none", "auto", "explicit", "beginErr"
    acted,         \* invocations of the action handed to withTxn
    actionErr      \* the action has returned an error

fineVars == <<usedTables, snap, txn, acted, actionErr>>

\* the verdict functions on their own
VARIABLES
    itemA,         \* compareQueryItem: left
    itemB,         \* compareQueryItem: right
    itemC,         \* a third query item
    cmp,           \* the results of compareQueryItem on the three items
    nodesArr,      \* one group of nodesGroup
    node,          \* position of the range over nodesArr
    resultSet,     \* the result sets collected for the group
    groupDone      \* what the iteration over the group ended with

oracleVars == <<itemA, itemB, itemC, cmp, nodesArr, node, resultSet, groupDone>>

auxVars == <<refreshVars, executorVars, fineVars, oracleVars>>

vars == <<conf, batch, roundInBatch, pc, cancelled, closed, refreshes,
          batchAtTop, approach, used, calls, verdict, connErr,
          groupsLeft, txnOpen, viewCalls, TablesAsOf, cacheAsOf, auxVars>>

Config == [ViewCount : 0..MaxViewCount, Silent : BOOLEAN,
           EnablePQSApproach : BOOLEAN, EnableNoRECApproach : BOOLEAN,
           EnableTLPApproach : BOOLEAN]

\* ---- values handed back by the connection ------------------------------
ValStrings == {"a", "b"}

QueryItem == [Null : BOOLEAN, ValString : ValStrings]

\* one-column rows; a result is a list of at most MaxRows rows
Row == [1..1 -> QueryItem]

SeqUpTo(S, n) == UNION {[1..k -> S] : k \in 0..n}

ResultRows == SeqUpTo(Row, MaxRows)

PivotColumns == <<"t.c">>

PivotRows == [{"t.c"} -> QueryItem]

\* ---- pure functions ----------------------------------------------------
\* the comparison of the string renderings alone
compareValString(left, right) == left.ValString = right.ValString

compareQueryItem(left, right) ==
    IF left.Null # right.Null
    THEN FALSE
    ELSE (left.Null /\ right.Null) \/ (left.ValString = right.ValString)

checkRow(originRow, columns, row) ==
    \A i \in 1..Len(columns) :
        compareQueryItem(originRow[columns[i]], row[i])

verifyPQS(originRow, columns, resultSets) ==
    \E k \in 1..Len(resultSets) : checkRow(originRow, columns, resultSets[k])

\* the comparison of the row counts and of the rows
checkResultSetRows(set) ==
    IF Len(set) < 2
    THEN TRUE
    ELSE \A k \in 1..Len(set) : set[k] = set[1]

checkResultSet(set) ==
    IF Len(set) < 2
    THEN TRUE
    ELSE \A k \in 1..Len(set) : Len(set[k]) = Len(set[1])

NextRoundNoWrap(r) == r + 1

NextRound(r) == (r + 1) % BatchSize

\* the candidate list built at the head of progress, in the code's order
EnabledApproaches(r) ==
    (IF conf.EnableNoRECApproach THEN <<approachNoREC>> ELSE <<>>)
    \o (IF conf.EnablePQSApproach THEN <<approachPQS>> ELSE <<>>)
    \o (IF conf.EnableTLPApproach THEN <<approachTLP>> ELSE <<>>)

\* the prefix of the batch is not forced to PQS
ApproachesNoPrefix(r) == EnabledApproaches(r)

Approaches(r) ==
    IF r < conf.ViewCount
    THEN <<approachPQS>>
    ELSE EnabledApproaches(r)

\* the guard of panic("data verified failed") in the PQS branch
PQSMismatchPanics(r) == r < conf.ViewCount \/ conf.Silent

\* the guard of log.L().Fatal("data verified failed") in the NoREC/TLP branch
GroupMismatchNeverFatal == FALSE

GroupMismatchFatal == ~conf.Silent

\* if dust.IsKnownBug() { return nil }
IsKnownBugIgnored(known) == FALSE

IsKnownBugReturns(known) == known

\* the guards of view seeding in the PQS branch
CreatesView(r) == r <= conf.ViewCount

ReloadsAlways(r) == TRUE

ReloadsSchema(r) == r = conf.ViewCount

\* ---- refreshDatabase: names and the state outside a refresh -----------
allColumnTypes == <<"int", "float", "varchar">>

\* the enumeration of column-type tuples createSchema ranges over
ComposeAllColumnTypes ==
    [i \in 1..MaxTuples |->
        SubSeq(allColumnTypes, 1, ((i - 1) % Len(allColumnTypes)) + 1)]

\* table_<tableIndex> is named by its index; the view of a batch comes last
viewTable == MaxTuples

TableIds == 0..MaxTuples

NoWorkers ==
    [w \in 0..(MaxTuples - 1) |-> [st |-> "none", tableIndex |-> -1, colTs |-> <<>>,
                                   made |-> <<>>]]

NoRows == [t \in TableIds |-> 0]

RefreshIdle ==
    /\ inWrite = "free"
    /\ index = -1
    /\ columnTypes = <<>>
    /\ worker = NoWorkers
    /\ dbTables = {}
    /\ cache = {}
    /\ Tables = <<>>
    /\ rows = NoRows
    /\ todo = {}
    /\ cur = {}
    /\ dmlLeft = 0
    /\ inserts = NoRows
    /\ begins = 0
    /\ commits = 0
    /\ stmtFailed = FALSE
    /\ ddlFailed = {}
    /\ idxDone = 0

\* ---- Executor: catalogue records and the cache --------------------------
\* Executor.db
dbName == "test"

CatalogueRecord ==
    [db : {"test", "other"}, table : {"T1", "t1"}, tableType : {"BASE TABLE"},
     column : {"c", "C"}, columnType : {"int(11)", "float"},
     nullable : {"YES", "NO"}]

RecordLists == SeqUpTo(CatalogueRecord, MaxRecords)

\* the simple case folding strings.EqualFold compares under
Lower(str) ==
    CASE str = "T1" -> "t1"
      [] str = "C" -> "c"
      [] str \in {"YES", "Yes"} -> "yes"
      [] str = "NO" -> "no"
      [] OTHER -> str

EqualFold(a, b) == Lower(a) = Lower(b)

\* CIStr.EqString: the comparison goes through the folded form
EqString(name, str) == EqualFold(name, str)

\* Column.ParseType: a trailing parenthesized width is stripped
ParseType(columnType) ==
    CASE columnType = "int(11)" -> "int"
      [] OTHER -> columnType

EmptyMap == [k \in {} |-> <<>>]

\* m[k] = v of a Go map
MapPut(m, k, v) == [x \in DOMAIN m \cup {k} |-> IF x = k THEN v ELSE m[x]]

\* what FetchIndexes hands back for a table
FetchedIndexes == <<"PRIMARY">>

ExecutorIdle ==
    /\ records = <<>>
    /\ tables = EmptyMap
    /\ indexes = EmptyMap
    /\ rec = 0
    /\ reloadErr = FALSE
    /\ before = EmptyMap

FineIdle ==
    /\ usedTables = <<>>
    /\ snap = [Tables |-> {}, cache |-> {}]
    /\ txn = "none"
    /\ acted = 0
    /\ actionErr = FALSE

OracleIdle ==
    /\ itemA = [Null |-> TRUE, ValString |-> "a"]
    /\ itemB = [Null |-> TRUE, ValString |-> "a"]
    /\ itemC = [Null |-> TRUE, ValString |-> "a"]
    /\ cmp = <<>>
    /\ nodesArr = <<>>
    /\ node = 0
    /\ resultSet = <<>>
    /\ groupDone = "none"

AuxIdle == RefreshIdle /\ ExecutorIdle /\ FineIdle /\ OracleIdle

\* ---- initial state: NewSQLancer ----------------------------------------
Init ==
    /\ conf \in Config
    /\ batch = 0
    /\ roundInBatch = 0
    /\ pc = "top"
    /\ cancelled = FALSE
    /\ closed = 0
    /\ refreshes = 0
    /\ batchAtTop = 0
    /\ approach = -1
    /\ used = -1
    /\ calls = <<>>
    /\ verdict = "none"
    /\ connErr = "none"
    /\ groupsLeft = 0
    /\ txnOpen = FALSE
    /\ viewCalls = 0
    /\ TablesAsOf = 0
    /\ cacheAsOf = 0
    /\ AuxIdle

roundVars == <<approach, used, calls, verdict, connErr, groupsLeft, txnOpen>>
schemaVars == <<viewCalls, TablesAsOf, cacheAsOf>>
loopVars == <<batch, roundInBatch, refreshes, batchAtTop>>

\* ---- environment results, reduced to what the code reads of them --------
\* ChoosePivotedRow: one sampling SELECT per chosen table; an error panics,
\* a table without rows is left out of reallyUsed
SampleOutcomes == UNION {[1..k -> {"err", "empty", "row"}] : k \in 1..MaxTables}

SamplePanics(outs) == \E i \in DOMAIN outs : outs[i] = "err"

ReallyUsed(outs) == Cardinality({i \in DOMAIN outs : outs[i] = "row"})

\* -1 stands for panic(err)
ChoosePivotedRowNoPanic(outs) == ReallyUsed(outs)

ChoosePivotedRow(outs) == IF SamplePanics(outs) THEN -1 ELSE ReallyUsed(outs)

\* verifyPQS over every pivot row and every result of the generated SELECT
PQSVerdicts == {verifyPQS(p, PivotColumns, rs) : p \in PivotRows, rs \in ResultRows}

\* one node of a group: BufferOut fails, execSelect fails, or rows come back
NodeOutcome == [kind : {"restoreErr", "execErr"}, rows : {<<>>}]
               \cup [kind : {"rows"}, rows : ResultRows]

NodeGroups == UNION {[1..k -> NodeOutcome] : k \in 1..MaxNodes}

\* the result sets collected for a group, up to the first execSelect error
RECURSIVE Collect(_, _)
Collect(nodes, i) ==
    IF i > Len(nodes) \/ nodes[i].kind = "execErr"
    THEN <<>>
    ELSE IF nodes[i].kind = "restoreErr"
         THEN Collect(nodes, i + 1)
         ELSE <<nodes[i].rows>> \o Collect(nodes, i + 1)

\* the body of the loop over nodesGroup for one group
CheckGroup(nodes) ==
    IF Len(nodes) < 2
    THEN "skip"
    ELSE IF \E i \in DOMAIN nodes : nodes[i].kind = "execErr"
         THEN "execErr"
         ELSE IF checkResultSet(Collect(nodes, 1)) THEN "pass" ELSE "mismatch"

GroupVerdicts == {CheckGroup(g) : g \in NodeGroups}

\* ---- Start / run -------------------------------------------------------
Cancel ==
    /\ ~cancelled
    /\ pc \notin {"returned", "aborted"}
    /\ cancelled' = TRUE
    /\ UNCHANGED <<conf, pc, closed, loopVars, roundVars, schemaVars>>
    /\ UNCHANGED auxVars

\* the select of run: the ctx.Done() case is ready
CtxDoneNever == FALSE

CtxDone == cancelled

\* case <-ctx.Done(): return
RunReturn ==
    /\ pc = "top"
    /\ CtxDone
    /\ pc' = "tearDown"
    /\ UNCHANGED <<conf, cancelled, closed, loopVars, roundVars, schemaVars>>
    /\ UNCHANGED auxVars

\* default: the head of one loop iteration
RunIterate ==
    /\ pc = "top"
    /\ ~CtxDone
    /\ roundInBatch = 0 => batch < MaxBatch
    /\ batchAtTop' = batch
    /\ pc' = IF roundInBatch = 0 THEN "refresh" ELSE "progress"
    /\ UNCHANGED <<conf, cancelled, closed, batch, roundInBatch, refreshes,
                   roundVars, schemaVars>>
    /\ UNCHANGED auxVars

\* refreshDatabase, then p.batch++ ; a panic inside setUpDB ends the process
RefreshDatabase ==
    /\ pc = "refresh"
    /\ refreshes' = refreshes + 1
    /\ viewCalls' = 0
    /\ \E loadOk \in BOOLEAN :
        /\ cacheAsOf' = 0
        /\ TablesAsOf' = 0
        /\ IF loadOk
           THEN /\ batch' = batch + 1
                /\ pc' = "progress"
           ELSE /\ batch' = batch
                /\ pc' = "aborted"
    /\ UNCHANGED <<conf, cancelled, closed, roundInBatch, batchAtTop, roundVars>>
    /\ UNCHANGED auxVars

\* p.roundInBatch = (p.roundInBatch + 1) % 100
EndRound ==
    /\ pc = "inc"
    /\ roundInBatch' = NextRound(roundInBatch)
    /\ approach' = -1
    /\ used' = -1
    /\ calls' = <<>>
    /\ verdict' = "none"
    /\ connErr' = "none"
    /\ groupsLeft' = 0
    /\ txnOpen' = FALSE
    /\ pc' = "top"
    /\ UNCHANGED <<conf, cancelled, closed, batch, refreshes, batchAtTop, schemaVars>>
    /\ UNCHANGED auxVars

\* tearDown: p.executor.Close()
TearDown ==
    /\ pc = "tearDown"
    /\ closed' = closed + 1
    /\ pc' = "returned"
    /\ UNCHANGED <<conf, cancelled, loopVars, roundVars, schemaVars>>
    /\ UNCHANGED auxVars

\* ---- progress ----------------------------------------------------------
\* approaches[Rd(len(approaches))] with an empty candidate list
ProgressNoApproach ==
    /\ pc = "progress"
    /\ Len(Approaches(roundInBatch)) = 0
    /\ calls' = <<"panic">>
    /\ pc' = "aborted"
    /\ UNCHANGED <<conf, cancelled, closed, loopVars, approach, used, verdict,
                   connErr, groupsLeft, txnOpen, schemaVars>>
    /\ UNCHANGED auxVars

\* the action handed to withTxn by the PQS branch, from execSelect on
PQSAction(pre, useExplicitTxn, selectOk) ==
    IF ~selectOk
    THEN \* execSelect failed: return err
         /\ calls' = pre \o <<"execSelect">>
         /\ verdict' = "none"
         /\ pc' = "inc"
         /\ UNCHANGED schemaVars
    ELSE
     \E correct \in PQSVerdicts :
      LET ran == pre \o <<"execSelect", "verifyPQS">> IN
      IF ~correct
      THEN
       \E known \in BOOLEAN :
        /\ verdict' = IF known THEN "known" ELSE "mismatch"
        /\ UNCHANGED schemaVars
        /\ IF IsKnownBugReturns(known)
           THEN /\ calls' = ran \o <<"IsKnownBug">>
                /\ pc' = "inc"
           ELSE IF PQSMismatchPanics(roundInBatch)
                THEN /\ calls' = ran \o <<"IsKnownBug", "printPivotRows", "panic">>
                     /\ pc' = "aborted"
                ELSE /\ calls' = ran \o <<"IsKnownBug", "printPivotRows">>
                     /\ pc' = "inc"
      ELSE
       \E loadOk \in BOOLEAN, reloadOk \in BOOLEAN :
        LET view == CreatesView(roundInBatch)
            reload == ReloadsSchema(roundInBatch)
            \* a failed CreateViewBySelect is only logged
            db == IF view THEN viewCalls + 1 ELSE viewCalls
            cs1 == ran \o (IF view THEN <<"CreateViewBySelect">> ELSE <<>>)
        IN
        /\ verdict' = "pass"
        /\ viewCalls' = db
        /\ IF ~reload
           THEN /\ calls' = cs1
                /\ pc' = "inc"
                /\ UNCHANGED <<TablesAsOf, cacheAsOf>>
           ELSE IF ~loadOk
           THEN \* LoadSchema panics on a failed catalogue fetch
                /\ calls' = cs1 \o <<"LoadSchema", "panic">>
                /\ pc' = "aborted"
                /\ UNCHANGED <<TablesAsOf, cacheAsOf>>
           ELSE IF ~reloadOk
           THEN \* panic(err) after ReloadSchema
                /\ calls' = cs1 \o <<"LoadSchema", "ReloadSchema", "panic">>
                /\ pc' = "aborted"
                /\ TablesAsOf' = db
                /\ UNCHANGED cacheAsOf
           ELSE /\ calls' = cs1 \o <<"LoadSchema", "ReloadSchema">>
                /\ pc' = "inc"
                /\ TablesAsOf' = db
                /\ cacheAsOf' = db

\* case approachPQS: of progress
ProgressPQS ==
    /\ pc = "progress"
    /\ \E i \in DOMAIN Approaches(roundInBatch) :
           Approaches(roundInBatch)[i] = approachPQS
    /\ approach' = approachPQS
    /\ groupsLeft' = 0
    /\ txnOpen' = FALSE
    /\ \E outs \in SampleOutcomes :
        IF SamplePanics(outs) /\ ChoosePivotedRow(outs) = -1
        THEN \* panic(err) in ChoosePivotedRow
             /\ connErr' = "sample"
             /\ used' = -1
             /\ calls' = <<"ChoosePivotedRow", "panic">>
             /\ verdict' = "none"
             /\ pc' = "aborted"
             /\ UNCHANGED schemaVars
        ELSE
         /\ used' = ChoosePivotedRow(outs)
         /\ \E useExplicitTxn \in BOOLEAN, beginOk \in BOOLEAN :
            LET pre == <<"ChoosePivotedRow", "GenPQSSelectStmt">> IN
            IF useExplicitTxn /\ ~beginOk
            THEN \* withTxn returns before action is invoked
                 /\ connErr' = IF SamplePanics(outs) THEN "sample" ELSE "none"
                 /\ calls' = pre
                 /\ verdict' = "none"
                 /\ pc' = "inc"
                 /\ UNCHANGED schemaVars
            ELSE \E selectOk \in BOOLEAN :
                 /\ connErr' = IF SamplePanics(outs) THEN "sample"
                               ELSE IF ~selectOk THEN "select" ELSE "none"
                 /\ PQSAction(pre, useExplicitTxn, selectOk)
    /\ UNCHANGED <<conf, cancelled, closed, loopVars>>
    /\ UNCHANGED auxVars

\* case approachNoREC, approachTLP: up to transformer.Transform
ProgressTransform ==
    /\ pc = "progress"
    /\ \E i \in DOMAIN Approaches(roundInBatch) :
        /\ Approaches(roundInBatch)[i] \in {approachNoREC, approachTLP}
        /\ approach' = Approaches(roundInBatch)[i]
    /\ \E useExplicitTxn \in BOOLEAN, beginOk \in BOOLEAN :
        LET pre == <<"GenSelectStmt">> IN
        IF useExplicitTxn /\ ~beginOk
        THEN /\ calls' = pre
             /\ groupsLeft' = 0
             /\ txnOpen' = FALSE
             /\ pc' = "inc"
        ELSE \E n \in 0..MaxGroups :
             /\ groupsLeft' = n
             /\ calls' = pre \o <<"Transform">>
             /\ IF n = 0
                THEN /\ txnOpen' = FALSE
                     /\ pc' = "inc"
                ELSE /\ txnOpen' = useExplicitTxn
                     /\ pc' = "group"
    /\ UNCHANGED <<conf, cancelled, closed, loopVars, used, verdict, connErr, schemaVars>>
    /\ UNCHANGED auxVars

\* one iteration of the loop over nodesGroup; leaving the loop by return
\* runs the deferred Commit of withTxn, os.Exit does not
ProgressGroup ==
    /\ pc = "group"
    /\ \E v \in GroupVerdicts :
        /\ verdict' = IF v = "execErr" THEN "none" ELSE v
        /\ connErr' = IF v = "execErr" THEN "variant" ELSE "none"
        /\ IF v = "execErr"
           THEN \* return err: the groups that are left are not checked
                /\ calls' = calls
                /\ groupsLeft' = groupsLeft
                /\ txnOpen' = FALSE
                /\ pc' = "inc"
           ELSE IF v = "mismatch" /\ GroupMismatchFatal
           THEN \* log.L().Fatal exits the process
                /\ calls' = Append(calls, "Fatal")
                /\ groupsLeft' = groupsLeft
                /\ txnOpen' = txnOpen
                /\ pc' = "aborted"
           ELSE /\ groupsLeft' = groupsLeft - 1
                /\ calls' = calls
                /\ IF groupsLeft = 1
                   THEN /\ txnOpen' = FALSE
                        /\ pc' = "inc"
                   ELSE /\ txnOpen' = txnOpen
                        /\ pc' = "group"
    /\ UNCHANGED <<conf, cancelled, closed, loopVars, approach, used, schemaVars>>
    /\ UNCHANGED auxVars

Next ==
    \/ Cancel
    \/ RunReturn
    \/ RunIterate
    \/ RefreshDatabase
    \/ ProgressNoApproach
    \/ ProgressPQS
    \/ ProgressTransform
    \/ ProgressGroup
    \/ EndRound
    \/ TearDown

Spec == Init /\ [][Next]_vars

\* the goroutine that runs Start is always scheduled again; the token is
\* fired by the caller, at any moment or never
Program ==
    \/ RunReturn
    \/ RunIterate
    \/ RefreshDatabase
    \/ ProgressNoApproach
    \/ ProgressPQS
    \/ ProgressTransform
    \/ ProgressGroup
    \/ EndRound
    \/ TearDown

FairSpec == Spec /\ WF_vars(Program)

\* ---- the run loop before its first iteration, under one configuration ---
loopState == <<conf, batch, roundInBatch, cancelled, closed, refreshes,
               batchAtTop, roundVars, schemaVars>>

LoopIdle ==
    /\ conf = [ViewCount |-> 0, Silent |-> FALSE, EnablePQSApproach |-> TRUE,
               EnableNoRECApproach |-> FALSE, EnableTLPApproach |-> FALSE]
    /\ batch = 0
    /\ roundInBatch = 0
    /\ cancelled = FALSE
    /\ closed = 0
    /\ refreshes = 0
    /\ batchAtTop = 0
    /\ approach = -1
    /\ used = -1
    /\ calls = <<>>
    /\ verdict = "none"
    /\ connErr = "none"
    /\ groupsLeft = 0
    /\ txnOpen = FALSE
    /\ viewCalls = 0
    /\ TablesAsOf = 0
    /\ cacheAsOf = 0

\* ---- refreshDatabase, statement by statement ---------------------------
\* the variables of the run loop that a refresh leaves alone
refreshFrame == <<conf, roundInBatch, cancelled, closed, batchAtTop,
                  roundVars, schemaVars, executorVars, fineVars, oracleVars>>

wkVars == <<index, columnTypes, worker>>
dbVars == <<dbTables, rows>>
listVars == <<cache, Tables>>
popVars == <<todo, cur, dmlLeft, inserts, begins, commits, stmtFailed>>
ddlVars == <<ddlFailed, idxDone>>

RECURSIVE SetToSeq(_)
SetToSeq(S) ==
    IF S = {}
    THEN <<>>
    ELSE LET m == CHOOSE x \in S : \A y \in S : x <= y
         IN <<m>> \o SetToSeq(S \ {m})

Perms(q) ==
    {p \in [1..Len(q) -> {q[i] : i \in 1..Len(q)}] :
        \A i \in 1..Len(q) : \E j \in 1..Len(q) : p[j] = q[i]}

\* a panic unwinds refreshDatabase: the deferred Unlock runs, the process ends
Panics ==
    /\ pc' = "aborted"
    /\ inWrite' = "free"

\* p.inWrite.Lock()
RefreshLock ==
    /\ pc = "refresh"
    /\ inWrite = "free"
    /\ inWrite' = "write"
    /\ refreshes' = refreshes + 1
    /\ pc' = "setUpDB"
    /\ UNCHANGED <<batch, refreshFrame, wkVars, dbVars, listVars, popVars, ddlVars>>

\* drop database, create database, use: the errors of Exec are dropped
SetUpDB ==
    /\ pc = "setUpDB"
    /\ \E ok \in BOOLEAN :
        /\ dbTables' = IF ok THEN {} ELSE dbTables
        /\ rows' = IF ok THEN NoRows ELSE rows
    /\ pc' = "createSchema"
    /\ UNCHANGED <<batch, refreshes, refreshFrame, inWrite, wkVars, listVars,
                   popVars, ddlVars>>

\* one iteration of the range of createSchema: tableIndex := index, colTs is
\* a copy of columnTypes, g.Go starts the goroutine
CreateSchemaGo ==
    /\ pc = "createSchema"
    /\ index < MaxTuples - 1
    /\ index' = index + 1
    /\ columnTypes' = ComposeAllColumnTypes[index' + 1]
    /\ worker' = [worker EXCEPT ![index'] =
                    [st |-> "running", tableIndex |-> index',
                     colTs |-> columnTypes', made |-> <<>>]]
    /\ UNCHANGED <<batch, refreshes, pc, refreshFrame, inWrite, dbVars, listVars,
                   popVars, ddlVars>>

\* what the goroutine hands to GenerateDDLCreateTable
WorkerInput(w) == [idx |-> worker[w].tableIndex, cols |-> worker[w].colTs]

\* the goroutine: GenerateDDLCreateTable and Exec; CREATE TABLE fails at
\* least when the table exists
WorkerRun(w) ==
    /\ worker[w].st = "running"
    /\ LET in == WorkerInput(w) IN
       \E ok \in BOOLEAN :
        /\ ok => in.idx \notin dbTables
        /\ worker' = [worker EXCEPT ![w].st = IF ok THEN "ok" ELSE "failed",
                                    ![w].made = in]
        /\ dbTables' = IF ok THEN dbTables \cup {in.idx} ELSE dbTables
        /\ rows' = IF ok THEN [rows EXCEPT ![in.idx] = 0] ELSE rows
    /\ UNCHANGED <<batch, refreshes, pc, refreshFrame, inWrite, index,
                   columnTypes, listVars, popVars, ddlVars>>

\* g.Wait() returns when every goroutine handed to g.Go has returned
WaitReturnsEarly == TRUE

WaitReturns == \A w \in DOMAIN worker : worker[w].st \in {"ok", "failed"}

\* if err := g.Wait(); err != nil { log }
CreateTableErrPanics(err) == err

CreateTableErrFatal(err) == FALSE

CreateSchemaWait ==
    /\ pc = "createSchema"
    /\ index = MaxTuples - 1
    /\ WaitReturns
    /\ IF CreateTableErrFatal(\E w \in DOMAIN worker : worker[w].st = "failed")
       THEN Panics
       ELSE /\ pc' = "reload"
            /\ inWrite' = inWrite
    /\ UNCHANGED <<batch, refreshes, refreshFrame, wkVars, dbVars, listVars,
                   popVars, ddlVars>>

\* err := p.executor.ReloadSchema(): a failure is logged
CreateSchemaReload ==
    /\ pc = "reload"
    /\ \E ok \in BOOLEAN : cache' = IF ok THEN dbTables ELSE cache
    /\ pc' = "indexes"
    /\ UNCHANGED <<batch, refreshes, refreshFrame, inWrite, wkVars, dbVars,
                   Tables, popVars, ddlVars>>

\* GenerateDDLCreateIndex hands back a nil statement with its error
NilStmtOnGenError == FALSE

\* one iteration of for i := 0; i < r.Intn(10); i++
CreateSchemaIndex ==
    /\ pc = "indexes"
    /\ idxDone < MaxIndexes
    /\ \E genOk \in BOOLEAN, execOk \in BOOLEAN :
        IF ~genOk /\ NilStmtOnGenError
        THEN /\ Panics
             /\ ddlFailed' = ddlFailed \cup {"indexGen"}
             /\ idxDone' = idxDone
        ELSE /\ pc' = pc
             /\ inWrite' = inWrite
             /\ idxDone' = idxDone + 1
             /\ ddlFailed' = ddlFailed
                    \cup (IF genOk THEN {} ELSE {"indexGen"})
                    \cup (IF execOk THEN {} ELSE {"indexExec"})
    /\ UNCHANGED <<batch, refreshes, refreshFrame, wkVars, dbVars, listVars, popVars>>

\* the end of the CREATE INDEX loop and p.LoadSchema(), which panics on a
\* failed catalogue fetch
CreateSchemaLoad ==
    /\ pc = "indexes"
    /\ \E ok \in BOOLEAN :
        IF ok
        THEN /\ Tables' = SetToSeq(dbTables)
             /\ pc' = "populate"
             /\ inWrite' = inWrite
        ELSE /\ Tables' = <<>>
             /\ Panics
    /\ idxDone' = 0
    /\ UNCHANGED <<batch, refreshes, refreshFrame, wkVars, dbVars, cache,
                   popVars, ddlFailed>>

\* ---- populateData ------------------------------------------------------
\* for i := Rd(4); i > 0; i--
RdDml == 4

\* the counts randTables may draw for a list of n tables
RandTablesCounts(n) ==
    IF n > 1
    THEN {c \in 1..(n - 1) : c <= 4} \cup (IF n - 1 > 4 THEN 1..4 ELSE {})
    ELSE {1}

\* p.Tables[:count] of an empty list is out of range
RandTablesPanics == Len(Tables) = 0

\* the statement of GenerateDMLInsertByTable adds one row to its table
AfterInsert(n) == n + 1

\* the statement of DeleteStmt(tables, table) removes rows of table only, the
\* one of UpdateStmt(tables, table) none
AfterDml(kind, n) == IF kind = "delete" THEN 0..n ELSE {n}

\* if c == 0 { insertData() }
CountNeverZero(c) == FALSE

CountIsZero(c) == c = 0

\* if err := p.executor.GetConn().Begin(); err != nil { log; return }
PopulateBegin ==
    /\ pc = "populate"
    /\ \E ok \in BOOLEAN :
        IF ok
        THEN /\ begins' = begins + 1
             /\ todo' = cache
             /\ pc' = "pop_next"
        ELSE /\ begins' = begins
             /\ todo' = todo
             /\ pc' = "exprIdx"
    /\ UNCHANGED <<batch, refreshes, refreshFrame, inWrite, wkVars, dbVars,
                   listVars, cur, dmlLeft, inserts, commits, stmtFailed, ddlVars>>

\* for _, table := range p.executor.GetTables(), taken in the order of the
\* names
PopulateNext ==
    /\ pc = "pop_next"
    /\ IF todo = {}
       THEN /\ cur' = {}
            /\ todo' = todo
            /\ pc' = "pop_commit"
       ELSE LET t == CHOOSE x \in todo : \A y \in todo : x <= y IN
            /\ cur' = {t}
            /\ todo' = todo \ {t}
            /\ pc' = "pop_insert"
    /\ UNCHANGED <<batch, refreshes, refreshFrame, inWrite, wkVars, dbVars,
                   listVars, dmlLeft, inserts, begins, commits, stmtFailed, ddlVars>>

\* the closure insertData for table t, then on to position next: a failed
\* generation panics, a failed INSERT is logged
InsertData(t, next) ==
    \E genOk \in BOOLEAN, ok \in BOOLEAN :
        /\ ok => t \in dbTables
        /\ stmtFailed' = (stmtFailed \/ ~genOk \/ ~ok)
        /\ IF ~genOk
           THEN /\ Panics
                /\ UNCHANGED <<rows, inserts>>
           ELSE /\ pc' = next
                /\ inWrite' = inWrite
                /\ rows' = IF ok THEN [rows EXCEPT ![t] = AfterInsert(@)] ELSE rows
                /\ inserts' = IF ok THEN [inserts EXCEPT ![t] = @ + 1] ELSE inserts

PopulateInsert ==
    /\ pc = "pop_insert"
    /\ \E t \in cur : InsertData(t, "pop_dml")
    /\ \E i \in 0..(RdDml - 1) : dmlLeft' = i
    /\ UNCHANGED <<batch, refreshes, refreshFrame, wkVars, dbTables, listVars,
                   todo, cur, begins, commits, ddlVars>>

\* one iteration of the UPDATE/DELETE loop: randTables, DeleteStmt or
\* UpdateStmt on the range's table, Exec; a failed generation is logged and
\* its statement executed all the same, a failed Exec panics.  randTables
\* permutes p.Tables; populateData reads nothing of their order, which is
\* left as it is here
PopulateDml ==
    /\ pc = "pop_dml"
    /\ dmlLeft > 0
    /\ IF RandTablesPanics
       THEN /\ Panics
            /\ UNCHANGED <<rows, dmlLeft, stmtFailed>>
       ELSE
        /\ \E t \in cur :
           \E kind \in {"delete", "update"}, genOk \in BOOLEAN, execOk \in BOOLEAN :
            /\ (genOk /\ execOk) => t \in dbTables
            /\ stmtFailed' = (stmtFailed \/ ~genOk \/ ~execOk)
            /\ IF ~execOk
               THEN /\ Panics
                    /\ UNCHANGED <<rows, dmlLeft>>
               ELSE /\ pc' = pc
                    /\ inWrite' = inWrite
                    /\ dmlLeft' = dmlLeft - 1
                    /\ IF genOk
                       THEN \E left \in AfterDml(kind, rows[t]) :
                                rows' = [rows EXCEPT ![t] = left]
                       ELSE rows' = rows
    /\ UNCHANGED <<batch, refreshes, refreshFrame, wkVars, dbTables, listVars,
                   todo, cur, inserts, begins, commits, ddlVars>>

\* select count(*): a failure is logged and qi[0][0] of the empty result
\* panics
PopulateCount ==
    /\ pc = "pop_dml"
    /\ dmlLeft = 0
    /\ \E t \in cur : \E ok \in BOOLEAN :
        /\ ok => t \in dbTables
        /\ stmtFailed' = (stmtFailed \/ ~ok)
        /\ IF ~ok
           THEN Panics
           ELSE /\ inWrite' = inWrite
                /\ pc' = IF CountIsZero(rows[t]) THEN "pop_reinsert" ELSE "pop_next"
    /\ UNCHANGED <<batch, refreshes, refreshFrame, wkVars, dbVars, listVars,
                   todo, cur, dmlLeft, inserts, begins, commits, ddlVars>>

PopulateReinsert ==
    /\ pc = "pop_reinsert"
    /\ \E t \in cur : InsertData(t, "pop_next")
    /\ UNCHANGED <<batch, refreshes, refreshFrame, wkVars, dbTables, listVars,
                   todo, cur, dmlLeft, begins, commits, ddlVars>>

\* if err := p.executor.GetConn().Commit(); err != nil { log; return }
PopulateCommit ==
    /\ pc = "pop_commit"
    /\ commits' = commits + 1
    /\ \E ok \in BOOLEAN : stmtFailed' = (stmtFailed \/ ~ok)
    /\ pc' = "exprIdx"
    /\ UNCHANGED <<batch, refreshes, refreshFrame, inWrite, wkVars, dbVars,
                   listVars, todo, cur, dmlLeft, inserts, begins, ddlVars>>

\* createExprIdx: with EnableExprIndex, addExprIndex and LoadSchema, each of
\* which panics on an error
CreateExprIdx ==
    /\ pc = "exprIdx"
    /\ \E out \in {"off", "done", "panic"} :
        /\ out = "done" => Len(Tables) > 0
        /\ IF out = "panic"
           THEN /\ Panics
                /\ Tables' = Tables
           ELSE /\ pc' = "unlock"
                /\ inWrite' = inWrite
                /\ Tables' = IF out = "done" THEN SetToSeq(dbTables) ELSE Tables
    /\ UNCHANGED <<batch, refreshes, refreshFrame, wkVars, dbVars, cache,
                   popVars, ddlVars>>

\* the deferred p.inWrite.Unlock(), then p.batch++
RefreshUnlock ==
    /\ pc = "unlock"
    /\ inWrite' = "free"
    /\ batch' = batch + 1
    /\ pc' = "progress"
    /\ UNCHANGED <<refreshes, refreshFrame, wkVars, dbVars, listVars, popVars, ddlVars>>

\* the hundred rounds of the batch, as far as the next refresh can tell:
\* every round draws from p.Tables (randTables), a PQS round of the seeding
\* prefix may have created a view, and the boundary round may have reloaded;
\* what createSchema and populateData have left behind is forgotten
BatchRounds ==
    /\ pc = "progress"
    /\ batch < MaxBatch
    /\ IF RandTablesPanics
       THEN /\ pc' = "aborted"
            /\ UNCHANGED <<dbVars, listVars, wkVars, popVars, ddlVars>>
       ELSE \E seeded \in BOOLEAN, reloaded \in BOOLEAN :
            /\ pc' = "refresh"
            /\ dbTables' = IF seeded THEN dbTables \cup {viewTable} ELSE dbTables
            /\ rows' = IF seeded THEN [rows EXCEPT ![viewTable] = 1] ELSE rows
            /\ cache' = IF reloaded THEN dbTables' ELSE cache
            /\ Tables' = IF reloaded THEN SetToSeq(dbTables') ELSE Tables
            /\ index' = -1
            /\ columnTypes' = <<>>
            /\ worker' = NoWorkers
            /\ todo' = {}
            /\ cur' = {}
            /\ dmlLeft' = 0
            /\ inserts' = NoRows
            /\ begins' = 0
            /\ commits' = 0
            /\ stmtFailed' = FALSE
            /\ ddlFailed' = {}
            /\ idxDone' = 0
    /\ UNCHANGED <<batch, refreshes, refreshFrame, inWrite>>

RefreshInit ==
    /\ LoopIdle
    /\ pc = "refresh"
    /\ AuxIdle

\* everything but the executor's own state
executorFrame == <<loopState, refreshVars, fineVars, oracleVars>>

RefreshNext ==
    \/ RefreshLock
    \/ SetUpDB
    \/ CreateSchemaGo
    \/ \E w \in DOMAIN worker : WorkerRun(w)
    \/ CreateSchemaWait
    \/ CreateSchemaReload
    \/ CreateSchemaIndex
    \/ CreateSchemaLoad
    \/ PopulateBegin
    \/ PopulateNext
    \/ PopulateInsert
    \/ PopulateDml
    \/ PopulateCount
    \/ PopulateReinsert
    \/ PopulateCommit
    \/ CreateExprIdx
    \/ RefreshUnlock
    \/ BatchRounds

RefreshSpec == RefreshInit /\ [][RefreshNext]_vars

\* ---- Executor.reloadSchema and Executor.loadSchema ---------------------
\* the body of the range of loadSchema for one record
LoadRecordNoFold(tbls, record, idxs) ==
    IF record.db # dbName
    THEN tbls
    ELSE LET tableName == record.table
             made == IF tableName \in DOMAIN tbls
                     THEN tbls
                     ELSE MapPut(tbls, tableName,
                                 [Name |-> tableName, Columns |-> <<>>,
                                  Indexes |-> IF tableName \in DOMAIN idxs
                                              THEN idxs[tableName] ELSE <<>>,
                                  Type |-> record.tableType])
         IN [made EXCEPT ![tableName].Columns =
                Append(@, [Table |-> tableName, Name |-> record.column,
                           Null |-> EqualFold(record.nullable, "Yes"),
                           Type |-> ParseType(record.columnType)])]

LoadRecord(tbls, record, idxs) ==
    IF record.db # dbName
    THEN tbls
    ELSE LET tableName == record.table
             made == IF tableName \in DOMAIN tbls
                     THEN tbls
                     ELSE MapPut(tbls, tableName,
                                 [Name |-> tableName, Columns |-> <<>>,
                                  Indexes |-> IF tableName \in DOMAIN idxs
                                              THEN idxs[tableName] ELSE <<>>,
                                  Type |-> record.tableType])
             cols == made[tableName].Columns
             hit == {i \in DOMAIN cols : EqString(cols[i].Name, record.column)}
         IN IF hit # {}
            THEN LET i == CHOOSE x \in hit : \A y \in hit : x <= y
                 IN [made EXCEPT
                       ![tableName].Columns[i].Type = record.columnType,
                       ![tableName].Columns[i].Null =
                           EqualFold(record.nullable, "Yes")]
            ELSE [made EXCEPT ![tableName].Columns =
                    Append(@, [Table |-> tableName, Name |-> record.column,
                               Null |-> EqualFold(record.nullable, "Yes"),
                               Type |-> ParseType(record.columnType)])]

\* e.tables while the catalogue is being fetched
ClearedBeforeFetch(tbls) == EmptyMap

TablesDuringFetch(tbls) == tbls

\* schema, err := e.conn.FetchSchema(e.db)
FetchSchema ==
    /\ pc = "reloadSchema"
    /\ \E ok \in BOOLEAN :
        /\ tables' = TablesDuringFetch(tables)
        /\ indexes' = EmptyMap
        /\ IF ok
           THEN /\ pc' = "fetchIndexes"
                /\ rec' = 1
                /\ reloadErr' = FALSE
           ELSE /\ pc' = "reloaded"
                /\ rec' = rec
                /\ reloadErr' = TRUE
    /\ UNCHANGED <<executorFrame, records, before>>

\* one iteration of the range over schema in reloadSchema; the guard looks
\* the table type up in indexes, which is keyed by table name
FetchIndexes ==
    /\ pc = "fetchIndexes"
    /\ rec <= Len(records)
    /\ LET col == records[rec] IN
       IF col.tableType \in DOMAIN indexes
       THEN /\ rec' = rec + 1
            /\ UNCHANGED <<pc, indexes, reloadErr>>
       ELSE \E ok \in BOOLEAN :
            IF ok
            THEN /\ indexes' = MapPut(indexes, col.table, FetchedIndexes)
                 /\ rec' = rec + 1
                 /\ UNCHANGED <<pc, reloadErr>>
            ELSE /\ pc' = "reloaded"
                 /\ reloadErr' = TRUE
                 /\ UNCHANGED <<indexes, rec>>
    /\ tables' = TablesDuringFetch(tables)
    /\ UNCHANGED <<executorFrame, records, before>>

\* e.loadSchema(schema, indexes): e.tables = make(map[string]*types.Table)
LoadSchemaMake ==
    /\ pc = "fetchIndexes"
    /\ rec > Len(records)
    /\ tables' = EmptyMap
    /\ rec' = 1
    /\ pc' = "loadSchema"
    /\ UNCHANGED <<executorFrame, records, indexes, reloadErr, before>>

\* one iteration of the range over records in loadSchema
LoadSchemaRecord ==
    /\ pc = "loadSchema"
    /\ rec <= Len(records)
    /\ tables' = LoadRecord(tables, records[rec], indexes)
    /\ rec' = rec + 1
    /\ UNCHANGED <<executorFrame, pc, records, indexes, reloadErr, before>>

\* return nil
ReloadReturn ==
    /\ pc = "loadSchema"
    /\ rec > Len(records)
    /\ pc' = "reloaded"
    /\ UNCHANGED <<executorFrame, executorVars>>

\* a cache that an earlier reload has built
PriorTables ==
    LoadRecord(EmptyMap,
               [db |-> "test", table |-> "t1", tableType |-> "BASE TABLE",
                column |-> "c", columnType |-> "float", nullable |-> "YES"],
               EmptyMap)

ExecutorInit ==
    /\ LoopIdle
    /\ RefreshIdle
    /\ FineIdle
    /\ OracleIdle
    /\ pc = "reloadSchema"
    /\ records \in RecordLists
    /\ tables \in {EmptyMap, PriorTables}
    /\ before = tables
    /\ indexes = EmptyMap
    /\ rec = 0
    /\ reloadErr = FALSE

ExecutorNext ==
    \/ FetchSchema
    \/ FetchIndexes
    \/ LoadSchemaMake
    \/ LoadSchemaRecord
    \/ ReloadReturn

ExecutorSpec == ExecutorInit /\ [][ExecutorNext]_vars

\* ---- one round of progress, statement by statement ----------------------
\* The rounds of the first batch, up to round MaxRound, each from RLock to
\* RUnlock; the refresh before round 0 is taken as a whole (its steps are
\* RefreshSpec's).
roundFrame == <<cancelled, closed, batchAtTop, used, calls, verdict, connErr,
                groupsLeft, viewCalls, TablesAsOf, cacheAsOf, index,
                columnTypes, worker, rows, todo, cur, dmlLeft, inserts,
                stmtFailed, ddlFailed, idxDone, executorVars, oracleVars>>

TableSet(q) == {q[i] : i \in DOMAIN q}

\* view_<roundInBatch>
ViewOf(r) == MaxTuples + r

\* the tables a refresh can leave in the database
RefreshedTables == SUBSET (0..(MaxTables - 1))

\* for ... { if p.roundInBatch == 0 { p.refreshDatabase(ctx) } ... }
RoundTop ==
    /\ pc = "top"
    /\ roundInBatch < MaxRound
    /\ pc' = IF roundInBatch = 0 THEN "refresh" ELSE "rlock"
    /\ UNCHANGED <<conf, batch, roundInBatch, refreshes, approach, txnOpen,
                   refreshVars, fineVars, roundFrame>>

\* refreshDatabase: p.inWrite.Lock()
RoundRefreshLock ==
    /\ pc = "refresh"
    /\ inWrite = "free"
    /\ inWrite' = "write"
    /\ pc' = "setUpDB"
    /\ UNCHANGED <<conf, batch, roundInBatch, refreshes, approach, txnOpen,
                   dbTables, cache, Tables, begins, commits, fineVars,
                   roundFrame>>

\* setUpDB and the deferred Unlock; ReloadSchema may have failed in
\* createSchema, and then the cache is the one of before
RoundSetUpDB ==
    /\ pc = "setUpDB"
    /\ \E made \in RefreshedTables, reloaded \in BOOLEAN :
        /\ dbTables' = made
        /\ Tables' = SetToSeq(made)
        /\ cache' = IF reloaded THEN made ELSE cache
    /\ inWrite' = "free"
    /\ refreshes' = refreshes + 1
    /\ batch' = batch + 1
    /\ pc' = "rlock"
    /\ UNCHANGED <<conf, roundInBatch, approach, txnOpen, begins, commits,
                   fineVars, roundFrame>>

\* p.inWrite.RLock() and the choice of the approach
RoundRLock ==
    /\ pc = "rlock"
    /\ inWrite = "free"
    /\ inWrite' = "read"
    /\ snap' = [Tables |-> TableSet(Tables), cache |-> cache]
    /\ \E i \in DOMAIN Approaches(roundInBatch) :
        /\ approach' = Approaches(roundInBatch)[i]
        /\ pc' = IF approach' = approachPQS THEN "choosePivot" ELSE "genSelect"
    /\ usedTables' = <<>>
    /\ txn' = "none"
    /\ acted' = 0
    /\ actionErr' = FALSE
    /\ begins' = 0
    /\ commits' = 0
    /\ UNCHANGED <<conf, batch, roundInBatch, refreshes, txnOpen, dbTables,
                   cache, Tables, roundFrame>>

\* a panic unwinds progress: the deferred RUnlock runs, the process ends
RoundPanics ==
    /\ pc' = "aborted"
    /\ inWrite' = "free"

\* p.Tables once randTables has handed out its first count elements
TablesAfterTruncate(p, count) == SubSeq(p, 1, count)

TablesAfterShuffle(p, count) == p

\* the rows of the sampling SELECTs of ChoosePivotedRow, one per used table
SamplesOf(count) == [1..count -> {"err", "empty", "row"}]

\* reallyUsed: the used tables whose sampling SELECT returned a row
RECURSIVE ReallyUsedTables(_, _)
ReallyUsedTables(q, outs) ==
    IF q = <<>>
    THEN <<>>
    ELSE (IF outs[1] = "row" THEN <<q[1]>> ELSE <<>>)
         \o ReallyUsedTables(Tail(q), Tail(outs))

\* ChoosePivotedRow (randTables, the sampling SELECTs) and GenPQSSelectStmt
RoundChoosePivotedRow ==
    /\ pc = "choosePivot"
    /\ IF RandTablesPanics
       THEN /\ RoundPanics
            /\ UNCHANGED <<Tables, usedTables>>
       ELSE \E p \in Perms(Tables), count \in RandTablesCounts(Len(Tables)) :
            \E outs \in SamplesOf(count) :
                /\ Tables' = TablesAfterShuffle(p, count)
                /\ IF \E i \in DOMAIN outs : outs[i] = "err"
                   THEN /\ RoundPanics
                        /\ UNCHANGED usedTables
                   ELSE /\ usedTables' =
                               ReallyUsedTables(SubSeq(p, 1, count), outs)
                        /\ pc' = "withTxn"
                        /\ UNCHANGED inWrite
    /\ UNCHANGED <<conf, batch, roundInBatch, refreshes, approach, txnOpen,
                   dbTables, cache, begins, commits, snap, txn, acted,
                   actionErr, roundFrame>>

\* GenSelectStmt: generator.NewGenCtx(p.randTables(), nil)
RoundGenSelectStmt ==
    /\ pc = "genSelect"
    /\ IF RandTablesPanics
       THEN /\ RoundPanics
            /\ UNCHANGED <<Tables, usedTables>>
       ELSE \E p \in Perms(Tables), count \in RandTablesCounts(Len(Tables)) :
                /\ Tables' = TablesAfterShuffle(p, count)
                /\ usedTables' = SubSeq(p, 1, count)
                /\ pc' = "withTxn"
                /\ UNCHANGED inWrite
    /\ UNCHANGED <<conf, batch, roundInBatch, refreshes, approach, txnOpen,
                   dbTables, cache, begins, commits, snap, txn, acted,
                   actionErr, roundFrame>>

\* withTxn(RdBool(), ...) up to the call of action
WithTxnBegin ==
    /\ pc = "withTxn"
    /\ \E useExplicitTxn \in BOOLEAN, beginOk \in BOOLEAN :
        IF useExplicitTxn
        THEN IF beginOk
             THEN /\ txn' = "explicit"
                  /\ begins' = begins + 1
                  /\ txnOpen' = TRUE
                  /\ pc' = "action"
             ELSE \* logged, return err
                  /\ txn' = "beginErr"
                  /\ pc' = "runlock"
                  /\ UNCHANGED <<begins, txnOpen>>
        ELSE /\ txn' = "auto"
             /\ pc' = "action"
             /\ UNCHANGED <<begins, txnOpen>>
    /\ UNCHANGED <<conf, batch, roundInBatch, refreshes, approach, inWrite,
                   dbTables, cache, Tables, commits, usedTables, snap, acted,
                   actionErr, roundFrame>>

\* the PQS action: p.execSelect(selectSQL)
PQSExecSelect ==
    /\ pc = "action"
    /\ approach = approachPQS
    /\ acted' = acted + 1
    /\ \E ok \in BOOLEAN :
        IF ok
        THEN /\ pc' = "verify"
             /\ UNCHANGED actionErr
        ELSE /\ pc' = "deferred"
             /\ actionErr' = TRUE
    /\ UNCHANGED <<conf, batch, roundInBatch, refreshes, approach, txnOpen,
                   refreshVars, usedTables, snap, txn, roundFrame>>

\* verifyPQS and what follows a mismatch
PQSVerify ==
    /\ pc = "verify"
    /\ \E correct \in PQSVerdicts, known \in BOOLEAN :
        pc' = IF correct
              THEN "seed"
              ELSE IF IsKnownBugReturns(known)
                   THEN "deferred"
                   ELSE IF PQSMismatchPanics(roundInBatch)
                        THEN "panicking"
                        ELSE "deferred"
    /\ UNCHANGED <<conf, batch, roundInBatch, refreshes, approach, txnOpen,
                   refreshVars, fineVars, roundFrame>>

\* CreateViewBySelect("view_<roundInBatch>", ...); its error is logged
PQSCreateView ==
    /\ pc = "seed"
    /\ IF CreatesView(roundInBatch)
       THEN \E ok \in BOOLEAN :
            dbTables' = IF ok THEN dbTables \cup {ViewOf(roundInBatch)}
                        ELSE dbTables
       ELSE UNCHANGED dbTables
    /\ pc' = IF ReloadsSchema(roundInBatch) THEN "loadSchema" ELSE "deferred"
    /\ UNCHANGED <<conf, batch, roundInBatch, refreshes, approach, txnOpen,
                   inWrite, cache, Tables, begins, commits, fineVars,
                   roundFrame>>

\* p.LoadSchema(): panics on a failed fetch
PQSLoadSchema ==
    /\ pc = "loadSchema"
    /\ \E ok \in BOOLEAN :
        IF ok
        THEN /\ Tables' = SetToSeq(dbTables)
             /\ pc' = "reloadSchema"
        ELSE /\ pc' = "panicking"
             /\ UNCHANGED Tables
    /\ UNCHANGED <<conf, batch, roundInBatch, refreshes, approach, txnOpen,
                   inWrite, dbTables, cache, begins, commits, fineVars,
                   roundFrame>>

\* if err := p.executor.ReloadSchema(); err != nil { panic(err) }
PQSReloadSchema ==
    /\ pc = "reloadSchema"
    /\ \E ok \in BOOLEAN :
        IF ok
        THEN /\ cache' = dbTables
             /\ pc' = "deferred"
        ELSE /\ pc' = "panicking"
             /\ UNCHANGED cache
    /\ UNCHANGED <<conf, batch, roundInBatch, refreshes, approach, txnOpen,
                   inWrite, dbTables, Tables, begins, commits, fineVars,
                   roundFrame>>

\* the NoREC/TLP action: the loop over nodesGroup ends with nil, with the
\* error of execSelect, or in log.Fatal (os.Exit: no deferred call runs)
GroupsAction ==
    /\ pc = "action"
    /\ approach # approachPQS
    /\ acted' = acted + 1
    /\ \E v \in GroupVerdicts :
        /\ v = "mismatch" => GroupMismatchFatal
        /\ pc' = IF v = "mismatch" THEN "aborted" ELSE "deferred"
        /\ actionErr' = (v = "execErr")
    /\ UNCHANGED <<conf, batch, roundInBatch, refreshes, approach, txnOpen,
                   refreshVars, usedTables, snap, txn, roundFrame>>

\* the deferred Commit is skipped when action has returned an error
CommitsOnSuccessOnly(err) == ~err

\* the deferred function of withTxn runs whatever action has returned
CommitsOnReturn(err) == TRUE

\* withTxn returns: the deferred Commit; its failure is logged
WithTxnReturn ==
    /\ pc = "deferred"
    /\ IF txn = "explicit" /\ CommitsOnReturn(actionErr)
       THEN \E commitOk \in BOOLEAN :
            /\ commits' = commits + 1
            /\ txnOpen' = FALSE
       ELSE UNCHANGED <<commits, txnOpen>>
    /\ pc' = "runlock"
    /\ UNCHANGED <<conf, batch, roundInBatch, refreshes, approach, inWrite,
                   dbTables, cache, Tables, begins, fineVars, roundFrame>>

\* a panic inside action: the deferred Commit, the deferred RUnlock, the end
RoundPanic ==
    /\ pc = "panicking"
    /\ IF txn = "explicit"
       THEN /\ commits' = commits + 1
            /\ txnOpen' = FALSE
       ELSE UNCHANGED <<commits, txnOpen>>
    /\ RoundPanics
    /\ UNCHANGED <<conf, batch, roundInBatch, refreshes, approach,
                   dbTables, cache, Tables, begins, fineVars, roundFrame>>

\* the deferred p.inWrite.RUnlock()
RoundRUnlock ==
    /\ pc = "runlock"
    /\ inWrite' = "free"
    /\ pc' = "inc"
    /\ UNCHANGED <<conf, batch, roundInBatch, refreshes, approach, txnOpen,
                   dbTables, cache, Tables, begins, commits, fineVars,
                   roundFrame>>

\* p.roundInBatch = (p.roundInBatch + 1) % 100
RoundInc ==
    /\ pc = "inc"
    /\ roundInBatch' = NextRound(roundInBatch)
    /\ pc' = "top"
    /\ UNCHANGED <<conf, batch, refreshes, approach, txnOpen, refreshVars,
                   fineVars, roundFrame>>

RoundInit ==
    /\ conf \in {c \in Config : c.EnablePQSApproach /\ c.EnableNoRECApproach
                                /\ c.EnableTLPApproach}
    /\ batch = 0
    /\ roundInBatch = 0
    /\ pc = "top"
    /\ cancelled = FALSE
    /\ closed = 0
    /\ refreshes = 0
    /\ batchAtTop = 0
    /\ approach = -1
    /\ used = -1
    /\ calls = <<>>
    /\ verdict = "none"
    /\ connErr = "none"
    /\ groupsLeft = 0
    /\ txnOpen = FALSE
    /\ viewCalls = 0
    /\ TablesAsOf = 0
    /\ cacheAsOf = 0
    /\ AuxIdle

RoundNext ==
    \/ RoundTop
    \/ RoundRefreshLock
    \/ RoundSetUpDB
    \/ RoundRLock
    \/ RoundChoosePivotedRow
    \/ RoundGenSelectStmt
    \/ WithTxnBegin
    \/ PQSExecSelect
    \/ PQSVerify
    \/ PQSCreateView
    \/ PQSLoadSchema
    \/ PQSReloadSchema
    \/ GroupsAction
    \/ WithTxnReturn
    \/ RoundPanic
    \/ RoundRUnlock
    \/ RoundInc

RoundSpec == RoundInit /\ [][RoundNext]_vars

\* ---- compareQueryItem on its own -----------------------------------------
\* everything but the state of the verdict functions
oracleFrame == <<loopState, refreshVars, executorVars, fineVars>>

\* compareQueryItem applied to the pairs of three query items
Compare ==
    /\ pc = "compare"
    /\ cmp' = [aa |-> compareQueryItem(itemA, itemA),
               ab |-> compareQueryItem(itemA, itemB),
               ba |-> compareQueryItem(itemB, itemA),
               bc |-> compareQueryItem(itemB, itemC),
               ac |-> compareQueryItem(itemA, itemC)]
    /\ pc' = "compared"
    /\ UNCHANGED <<oracleFrame, itemA, itemB, itemC, nodesArr, node,
                   resultSet, groupDone>>

CompareInit ==
    /\ LoopIdle
    /\ RefreshIdle
    /\ ExecutorIdle
    /\ FineIdle
    /\ pc = "compare"
    /\ itemA \in QueryItem
    /\ itemB \in QueryItem
    /\ itemC \in QueryItem
    /\ cmp = <<>>
    /\ nodesArr = <<>>
    /\ node = 0
    /\ resultSet = <<>>
    /\ groupDone = "none"

CompareNext == Compare

CompareSpec == CompareInit /\ [][CompareNext]_vars

\* ---- one group of nodesGroup, node by node ------------------------------
\* for _, nodesArr := range nodesGroup: a group of fewer than 2 nodes is
\* logged and left; otherwise sqlInOneGroup and resultSet are made
GroupEnter ==
    /\ pc = "group"
    /\ IF Len(nodesArr) < 2
       THEN /\ groupDone' = "skip"
            /\ pc' = "left"
            /\ UNCHANGED <<node, resultSet>>
       ELSE /\ node' = 1
            /\ resultSet' = <<>>
            /\ pc' = "nodes"
            /\ UNCHANGED groupDone
    /\ UNCHANGED <<oracleFrame, itemA, itemB, itemC, cmp, nodesArr>>

\* for _, node := range nodesArr: BufferOut, execSelect, append
GroupNode ==
    /\ pc = "nodes"
    /\ node <= Len(nodesArr)
    /\ LET n == nodesArr[node] IN
       IF n.kind = "restoreErr"
       THEN \* logged; the node is left out
            /\ node' = node + 1
            /\ UNCHANGED <<resultSet, groupDone, pc>>
       ELSE IF n.kind = "execErr"
            THEN \* logged; return err
                 /\ groupDone' = "execErr"
                 /\ pc' = "left"
                 /\ UNCHANGED <<node, resultSet>>
            ELSE /\ resultSet' = Append(resultSet, n.rows)
                 /\ node' = node + 1
                 /\ UNCHANGED <<groupDone, pc>>
    /\ UNCHANGED <<oracleFrame, itemA, itemB, itemC, cmp, nodesArr>>

\* correct := p.checkResultSet(resultSet, true) and the Fatal of a mismatch
GroupCheck ==
    /\ pc = "nodes"
    /\ node > Len(nodesArr)
    /\ LET ok == checkResultSet(resultSet) IN
        /\ groupDone' = IF ok THEN "pass" ELSE "mismatch"
        /\ pc' = IF ~ok /\ GroupMismatchFatal THEN "aborted" ELSE "left"
    /\ UNCHANGED <<oracleFrame, itemA, itemB, itemC, cmp, nodesArr, node,
                   resultSet>>

GroupInit ==
    /\ conf \in {c \in Config : /\ c.ViewCount = 0
                                /\ ~c.EnablePQSApproach
                                /\ c.EnableNoRECApproach
                                /\ c.EnableTLPApproach}
    /\ batch = 0
    /\ roundInBatch = 0
    /\ cancelled = FALSE
    /\ closed = 0
    /\ refreshes = 0
    /\ batchAtTop = 0
    /\ approach = -1
    /\ used = -1
    /\ calls = <<>>
    /\ verdict = "none"
    /\ connErr = "none"
    /\ groupsLeft = 0
    /\ txnOpen = FALSE
    /\ viewCalls = 0
    /\ TablesAsOf = 0
    /\ cacheAsOf = 0
    /\ RefreshIdle
    /\ ExecutorIdle
    /\ FineIdle
    /\ pc = "group"
    /\ itemA = [Null |-> TRUE, ValString |-> "a"]
    /\ itemB = [Null |-> TRUE, ValString |-> "a"]
    /\ itemC = [Null |-> TRUE, ValString |-> "a"]
    /\ cmp = <<>>
    /\ nodesArr \in NodeGroups
    /\ node = 0
    /\ resultSet = <<>>
    /\ groupDone = "none"

GroupNext ==
    \/ GroupEnter
    \/ GroupNode
    \/ GroupCheck

GroupSpec == GroupInit /\ [][GroupNext]_vars

\* ---- helpers of the properties ----------------------------------------
Called(c) == \E i \in DOMAIN calls : calls[i] = c

\* every call of a precedes every call of b
Before(a, b) ==
    \A i \in DOMAIN calls : \A j \in DOMAIN calls :
        (calls[i] = a /\ calls[j] = b) => i < j

ApproachEnabled(a) ==
    \/ a = approachPQS /\ conf.EnablePQSApproach
    \/ a = approachNoREC /\ conf.EnableNoRECApproach
    \/ a = approachTLP /\ conf.EnableTLPApproach

AnyEnabled ==
    conf.EnablePQSApproach \/ conf.EnableNoRECApproach \/ conf.EnableTLPApproach

\* ---- C1 ----------------------------------------------------------------
\* C1: roundInBatch stays in 0..BatchSize-1; batch never decreases; batch
\* grows by exactly 1 in the iterations that start with roundInBatch = 0 and
\* in no other, and that is the one place refreshDatabase is invoked, before
\* the iteration's progress.
C1_BatchState ==
    [][ /\ roundInBatch' \in 0..(BatchSize - 1)
        /\ batch' >= batch
        /\ batch' # batch =>
             (batch' = batch + 1 /\ roundInBatch = 0 /\ pc = "refresh"
              /\ refreshes' = refreshes + 1)
        /\ refreshes' # refreshes =>
             (refreshes' = refreshes + 1 /\ roundInBatch = 0 /\ pc = "refresh")
        /\ (pc # "progress" /\ pc' = "progress") =>
             /\ batch' = batchAtTop' + (IF roundInBatch' = 0 THEN 1 ELSE 0)
             /\ refreshes' = batch'
      ]_vars

\* the second batch has been opened, after the 100 rounds of the first
C1_Witness == batch = 2 /\ roundInBatch = 0 /\ pc = "progress" /\ refreshes = 2

\* ---- C2 ----------------------------------------------------------------
\* C2: a round of the prefix (roundInBatch < ViewCount) runs PQS whatever the
\* flags are; any other round runs an approach whose flag is set; with at
\* least one flag set the candidate list is never empty.
C2_ApproachSelection ==
    /\ pc \in {"inc", "group"} => approach # -1
    /\ approach # -1 =>
         IF roundInBatch < conf.ViewCount
         THEN approach = approachPQS
         ELSE ApproachEnabled(approach)
    /\ AnyEnabled => ~(pc = "aborted" /\ approach = -1 /\ calls = <<"panic">>)

\* only NoREC is enabled and the first round of the batch has run PQS
C2_Witness ==
    /\ conf.ViewCount = 1
    /\ ~conf.EnablePQSApproach /\ conf.EnableNoRECApproach /\ ~conf.EnableTLPApproach
    /\ roundInBatch = 0 /\ pc = "inc" /\ approach = approachPQS

\* ---- C3 ----------------------------------------------------------------
\* C3: a PQS mismatch that the known-bug filter does not match ends the
\* process when Silent is false, and is only reported (the loop goes on)
\* when Silent is true, in every round of the batch.
C3_SilentPolicy ==
    (approach = approachPQS /\ verdict = "mismatch") =>
        IF conf.Silent THEN pc = "inc" ELSE pc = "aborted"

\* ---- C4 ----------------------------------------------------------------
\* C4: in a NoREC or TLP round a group whose variants disagree in
\* cardinality ends the process when Silent is false (nothing runs after
\* it); when Silent is true the loop over the groups goes on with the next
\* group and the round ends normally.
C4_GroupMismatch ==
    [][ /\ pc # "aborted"
        /\ (pc = "group" /\ cancelled' = cancelled /\ verdict' = "mismatch") =>
             IF conf.Silent
             THEN /\ groupsLeft' = groupsLeft - 1
                  /\ pc' = (IF groupsLeft' = 0 THEN "inc" ELSE "group")
             ELSE /\ pc' = "aborted"
                  /\ groupsLeft' = groupsLeft
      ]_vars

\* silent mode: a group has mismatched and the next group is still to come
C4_Witness ==
    /\ pc = "group" /\ verdict = "mismatch" /\ conf.Silent
    /\ groupsLeft = 1 /\ approach = approachTLP

\* ---- C5 ----------------------------------------------------------------
\* C5 (as stated): for each of the three oracles a detected mismatch is
\* shown to the known-bug filter before it is reported or made fatal, and a
\* match suppresses it.
C5_AllOraclesFiltered ==
    /\ verdict \in {"mismatch", "known"} =>
         /\ Called("IsKnownBug")
         /\ Before("IsKnownBug", "printPivotRows")
         /\ Before("IsKnownBug", "panic")
         /\ Before("IsKnownBug", "Fatal")
    /\ verdict = "known" =>
         (pc # "aborted" /\ ~Called("printPivotRows") /\ ~Called("panic"))

\* C5 (amended): in a PQS round a mismatch is shown to the known-bug filter
\* before the pivot row is printed or the panic raised, and a match
\* suppresses it for both values of Silent; a NoREC or TLP round never
\* consults the filter.
C5_PQSFiltered ==
    /\ (approach = approachPQS /\ verdict \in {"mismatch", "known"}) =>
         /\ Called("IsKnownBug")
         /\ Before("IsKnownBug", "printPivotRows")
         /\ Before("IsKnownBug", "panic")
    /\ verdict = "known" =>
         /\ approach = approachPQS
         /\ pc = "inc"
         /\ ~Called("printPivotRows") /\ ~Called("panic")
    /\ approach \in {approachNoREC, approachTLP} => ~Called("IsKnownBug")

\* a known bug has been suppressed in silent mode
C5_Witness ==
    verdict = "known" /\ conf.Silent /\ pc = "inc" /\ roundInBatch > conf.ViewCount

\* ---- C6 ----------------------------------------------------------------
\* C6: a batch sees at most ViewCount calls of CreateViewBySelect (none when
\* ViewCount is 0).
C6_ViewsAtMostViewCount == viewCalls <= conf.ViewCount

C8_StartAlwaysReturns ==
    (cancelled /\ AnyEnabled) ~> (pc = "returned" /\ closed = 1)

\* what is left of Start once the token has fired: an upper bound of the
\* number of steps to its end
Rank ==
    CASE pc \in {"returned", "aborted"} -> 0
      [] pc = "tearDown" -> 1
      [] pc = "top"      -> 2
      [] pc = "inc"      -> 3
      [] pc = "group"    -> 3 + groupsLeft
      [] pc = "progress" -> 4 + MaxGroups
      [] pc = "refresh"  -> 5 + MaxGroups

\* C8 (amended): with the token fired, the head of the loop only leaves the
\* loop (no refreshDatabase, no progress is started); tearDown follows, only
\* from the head of the loop, and closes the executor once.  From then on
\* every step brings the goroutine closer to its end and a step is always
\* possible, so, scheduled fairly, Start either returns that way or the
\* iteration in flight ends the process (panic or log.Fatal), in which case
\* the executor is never closed.
C8_Cancellation ==
    /\ [][ /\ (cancelled /\ pc = "top") => pc' = "tearDown"
           /\ pc' = "tearDown" => (cancelled /\ pc = "top")
           /\ pc = "tearDown" => (pc' = "returned" /\ closed' = closed + 1)
           /\ closed' # closed => pc = "tearDown"
           /\ pc \notin {"returned", "aborted"}
           /\ cancelled => (refreshes' = refreshes \/ pc = "refresh")
           /\ cancelled => Rank' < Rank
         ]_vars
    /\ [](pc = "returned" => (closed = 1 /\ cancelled /\ approach = -1))
    /\ [](pc # "returned" => closed = 0)
    /\ [](pc \in {"top", "refresh", "progress", "group", "inc", "tearDown",
                  "returned", "aborted"})
    /\ []((cancelled /\ pc = "top") => ENABLED RunReturn)
    /\ []((cancelled /\ pc = "refresh") => ENABLED RefreshDatabase)
    /\ []((cancelled /\ pc = "progress") =>
            ENABLED (ProgressNoApproach \/ ProgressPQS \/ ProgressTransform))
    /\ []((cancelled /\ pc = "group") => ENABLED ProgressGroup)
    /\ []((cancelled /\ pc = "inc") => ENABLED EndRound)
    /\ []((cancelled /\ pc = "tearDown") => ENABLED TearDown)

\* Start has returned in the middle of the first batch
C8_Witness ==
    pc = "returned" /\ closed = 1 /\ batch = 1 /\ roundInBatch = 2

\* ---- C9 ----------------------------------------------------------------
\* C9: a PQS round whose sampling leaves no table in reallyUsed is skipped:
\* no SELECT is generated or executed, there is no verdict and no view.
C9_EmptyPivotSkips ==
    (approach = approachPQS /\ used = 0) =>
        /\ ~Called("GenPQSSelectStmt")
        /\ ~Called("execSelect")
        /\ ~Called("CreateViewBySelect")
        /\ verdict = "none"
        /\ pc # "aborted"

\* ---- C10 ---------------------------------------------------------------
\* C10 (as stated): an error of the connection on any statement of a round
\* ends the process.
C10_ConnErrFatal == connErr # "none" => pc = "aborted"

\* C10 (amended): an error of the pivot-row sampling SELECT ends the
\* process; an error of the generated PQS SELECT or of a NoREC/TLP variant
\* ends the round only (no verdict, no view, no reload, the groups that are
\* left are not checked, the transaction is closed) and the loop goes on.
C10_ConnErrPolicy ==
    /\ connErr = "sample" =>
         (pc = "aborted" /\ calls = <<"ChoosePivotedRow", "panic">>)
    /\ connErr \in {"select", "variant"} =>
         /\ pc = "inc"
         /\ verdict = "none"
         /\ ~txnOpen
         /\ ~Called("CreateViewBySelect") /\ ~Called("LoadSchema")
    /\ connErr = "select" => approach = approachPQS
    /\ connErr = "variant" =>
         (approach \in {approachNoREC, approachTLP} /\ groupsLeft >= 1)

\* a variant of the first of two groups has failed and the round has ended
C10_Witness ==
    connErr = "variant" /\ groupsLeft = 2 /\ pc = "inc"

\* ---- C11 ---------------------------------------------------------------
\* C11: when populateData has committed and none of its statements or
\* generations has failed, every table of the executor's cache holds at
\* least one row and has received one INSERT, or two; the second INSERT is
\* made exactly when the count after the table's UPDATE/DELETE statements is
\* zero; every statement runs after the one Begin and before the one Commit.
C11_PopulateLeavesRows ==
    /\ []((pc = "exprIdx" /\ commits = 1 /\ ~stmtFailed) =>
            /\ begins = 1
            /\ \A t \in TableIds :
                 IF t \in cache
                 THEN rows[t] >= 1 /\ inserts[t] \in {1, 2}
                 ELSE inserts[t] = 0)
    /\ [](commits <= begins /\ begins <= 1)
    /\ [][ /\ (pc = "pop_dml" /\ pc' \in {"pop_next", "pop_reinsert"}) =>
                \A t \in cur : (pc' = "pop_reinsert") <=> (rows[t] = 0)
           /\ (pc = "pop_reinsert" /\ pc' = "pop_next" /\ ~stmtFailed') =>
                \A t \in cur : inserts'[t] = 2 /\ rows'[t] = 1
           /\ (pc = "pop_insert" /\ pc' = "pop_dml" /\ ~stmtFailed') =>
                \A t \in cur : inserts'[t] = 1
           /\ ((inserts' # inserts \/ rows' # rows)
               /\ pc \in {"pop_insert", "pop_dml", "pop_reinsert"}) =>
                (begins = 1 /\ commits = 0)
           /\ (inserts' # inserts) =>
                pc \in {"pop_insert", "pop_reinsert", "progress"}
         ]_vars

\* populateData has committed; one of the two tables was emptied by a DELETE
\* and has received its second INSERT
C11_Witness ==
    /\ pc = "exprIdx" /\ commits = 1 /\ ~stmtFailed
    /\ Cardinality(cache) >= 2
    /\ \E t \in cache : inserts[t] = 2
    /\ \E t \in cache : inserts[t] = 1

\* ---- C12 ---------------------------------------------------------------
\* the steps of a refresh, between Lock and Unlock
InRefresh ==
    pc \in {"setUpDB", "createSchema", "reload", "indexes", "populate",
            "pop_next", "pop_insert", "pop_dml", "pop_reinsert", "pop_commit",
            "exprIdx", "unlock"}

SomeWorkerFailed == \E w \in DOMAIN worker : worker[w].st = "failed"

C13_ColumnsUniqueModuloCase ==
    \A t \in DOMAIN tables :
        \A i \in DOMAIN tables[t].Columns : \A j \in DOMAIN tables[t].Columns :
            i # j => ~EqualFold(tables[t].Columns[i].Name, tables[t].Columns[j].Name)

\* two records for one table whose column names differ only in case have
\* been folded into one column
C13_Witness ==
    /\ pc = "reloaded" /\ ~reloadErr
    /\ Len(records) = 2
    /\ records[1].db = dbName /\ records[2].db = dbName
    /\ records[1].table = records[2].table
    /\ records[1].column = "c" /\ records[2].column = "C"
    /\ Len(tables[records[1].table].Columns) = 1

\* ---- C14 ---------------------------------------------------------------
\* C14: the cache has one entry per case-folded table name: two keys that
\* are equal modulo case are the same key.
C14_CaseFoldedKeys ==
    \A a \in DOMAIN tables : \A b \in DOMAIN tables : EqualFold(a, b) => a = b

InRound == inWrite = "read"

ListsChange ==
    TableSet(Tables') # TableSet(Tables) \/ cache' # cache

SnapshotHeld ==
    TableSet(Tables) = snap.Tables /\ cache = snap.cache

C16_OneSnapshotPerRound ==
    [][/\ (InRound /\ usedTables' # usedTables)
            => /\ SnapshotHeld
               /\ TableSet(Tables') = snap.Tables
               /\ TableSet(usedTables') \subseteq snap.Tables
       /\ (InRound /\ acted' > acted)
            => SnapshotHeld /\ TableSet(usedTables) \subseteq snap.Tables
       /\ (InRound /\ ListsChange)
            => /\ roundInBatch = conf.ViewCount
               /\ approach = approachPQS
               /\ pc \in {"loadSchema", "reloadSchema"}
               /\ acted = 1
       /\ pc' = "loadSchema" => pc = "seed"
       /\ pc' = "seed" => pc = "verify"
       /\ pc' = "verify" => pc = "action" /\ acted' = 1
       /\ (~InRound /\ ListsChange) => inWrite = "write"]_vars

\* the boundary round has rebuilt both lists, with the view in them, after a
\* list was handed to the generator
C16_Witness ==
    /\ InRound
    /\ pc = "deferred"
    /\ roundInBatch = conf.ViewCount
    /\ usedTables # <<>>
    /\ TableSet(Tables) # snap.Tables
    /\ cache = TableSet(Tables)

\* ---- C17 ---------------------------------------------------------------
\* C17: withTxn with useExplicitTxn set issues Begin before it invokes action
\* and, when action has returned (nil or an error), exactly one Commit, after
\* which the round goes on to its end whatever Commit returned; when Begin
\* fails action is not invoked and no Commit is issued; without
\* useExplicitTxn action is invoked with no Begin and no Commit; Begin is
\* never issued while a transaction opened by withTxn is open.
WithTxnReturned == pc = "runlock"

C17_WithTxnBrackets ==
    [][/\ acted' > acted
            => /\ txn \in {"explicit", "auto"}
               /\ acted = 0
               /\ txn = "explicit" => (begins = 1 /\ commits = 0 /\ txnOpen)
               /\ txn = "auto" => (begins = 0 /\ ~txnOpen)
       /\ commits' > commits
            => txn = "explicit" /\ acted = 1 /\ commits = 0 /\ txnOpen
       /\ begins' > begins => ~txnOpen /\ acted = 0
       /\ pc = "deferred" => pc' = "runlock"
       /\ WithTxnReturned'
            => /\ ~txnOpen'
               /\ txn' = "explicit"
                    => (begins' = 1 /\ acted' = 1 /\ commits' = 1)
               /\ txn' = "beginErr"
                    => (begins' = 0 /\ acted' = 0 /\ commits' = 0)
               /\ txn' = "auto"
                    => (begins' = 0 /\ acted' = 1 /\ commits' = 0)]_vars

\* an explicit transaction whose action has returned an error is committed
C17_Witness ==
    /\ WithTxnReturned
    /\ txn = "explicit"
    /\ actionErr
    /\ commits = 1
    /\ ~txnOpen

\* ---- C18 ---------------------------------------------------------------
Launched(w) == worker[w].st # "none"

Returned(w) == worker[w].st \in {"ok", "failed"}

\* the range variables of iteration w of createSchema
OwnInput(w) == [idx |-> w, cols |-> ComposeAllColumnTypes[w + 1]]

\* C18: createSchema hands one goroutine per column-type tuple to g.Go, each
\* with the table index and the column types of its own iteration, which are
\* what its CREATE TABLE is generated from; ReloadSchema, the CREATE INDEX
\* loop, LoadSchema, populateData and createExprIdx act only when every
\* goroutine has returned, failed or not; the exclusive lock is held from
\* before the first goroutine starts until the last step is over.
C18_WorkersBeforeTheRest ==
    /\ [](\A w \in DOMAIN worker :
            /\ Launched(w) => /\ worker[w].tableIndex = w
                              /\ worker[w].colTs = OwnInput(w).cols
            /\ Returned(w) => worker[w].made = OwnInput(w)
            /\ worker[w].st = "running"
                    => pc = "createSchema" /\ inWrite = "write")
    /\ []((InRefresh /\ pc \notin {"setUpDB", "createSchema"})
            => \A w \in DOMAIN worker : Returned(w))
    /\ [](InRefresh => inWrite = "write")
    /\ [][/\ (InRefresh /\ (cache' # cache \/ Tables' # Tables
                            \/ idxDone' # idxDone \/ ddlFailed' # ddlFailed
                            \/ begins' # begins \/ inserts' # inserts
                            \/ commits' # commits))
               => \A w \in DOMAIN worker : Returned(w)
          /\ (inWrite = "write" /\ inWrite' # "write")
               => pc = "unlock" \/ pc' = "aborted"]_vars

\* ReloadSchema is about to start: one CREATE TABLE has failed, another one
\* has not, and the lock is held
C18_Witness ==
    /\ pc = "reload"
    /\ inWrite = "write"
    /\ \E w \in DOMAIN worker : worker[w].st = "failed"
    /\ \E w \in DOMAIN worker : worker[w].st = "ok"

\* ---- C19 ---------------------------------------------------------------
\* C19: compareQueryItem is reflexive, symmetric and transitive, and it is
\* true of two items exactly when both are null or both are non-null with
\* equal ValString; it is false when exactly one of the two is null, also
\* when the two ValStrings are equal.
C19_CompareIsEquivalence ==
    pc = "compared" =>
        /\ cmp.aa
        /\ cmp.ab = cmp.ba
        /\ (cmp.ab /\ cmp.bc) => cmp.ac
        /\ cmp.ab <=> \/ itemA.Null /\ itemB.Null
                      \/ /\ ~itemA.Null /\ ~itemB.Null
                         /\ itemA.ValString = itemB.ValString
        /\ (itemA.Null # itemB.Null) => ~cmp.ab

\* exactly one of two items with the same ValString is null
C19_Witness ==
    /\ pc = "compared"
    /\ itemA.Null /\ ~itemB.Null
    /\ itemA.ValString = itemB.ValString
    /\ ~cmp.ab

\* ---- C20 ---------------------------------------------------------------
\* the nodes of the group whose SELECT has been executed
Executed == {i \in DOMAIN nodesArr : nodesArr[i].kind = "rows"}

\* the group with every row replaced by one and the same row
SameRows(nodes) ==
    [i \in DOMAIN nodes |->
        [kind |-> nodes[i].kind,
         rows |-> [k \in DOMAIN nodes[i].rows |->
                      [c \in 1..1 |-> [Null |-> TRUE, ValString |-> "a"]]]]]

\* C20: a group of fewer than 2 variants is left without a verdict; a group
\* of 2 or more whose variants are all executed without an error of the
\* connection is judged correct exactly when all executed variants returned
\* the same number of rows; the verdict is the one of the group with every
\* row replaced by one and the same row.
C20_VerdictByRowCount ==
    (pc \in {"left", "aborted"}) =>
        /\ Len(nodesArr) < 2 => groupDone = "skip" /\ resultSet = <<>>
        /\ (Len(nodesArr) >= 2 /\ \A i \in DOMAIN nodesArr : nodesArr[i].kind # "execErr")
            => /\ groupDone \in {"pass", "mismatch"}
               /\ groupDone = "pass" <=>
                    \A i \in Executed : \A j \in Executed :
                        Len(nodesArr[i].rows) = Len(nodesArr[j].rows)
        /\ groupDone = CheckGroup(SameRows(nodesArr))

\* two variants have returned one row each, not the same row, and the group
\* has passed
C20_Witness ==
    /\ pc = "left"
    /\ groupDone = "pass"
    /\ Len(resultSet) = 2
    /\ Len(resultSet[1]) = 1 /\ Len(resultSet[2]) = 1
    /\ resultSet[1] # resultSet[2]

\* ---- C21 ---------------------------------------------------------------
\* two records of the database report the same column of the same table
SameColumn(a, b) ==
    /\ a.db = dbName /\ b.db = dbName
    /\ a.table = b.table
    /\ EqString(a.column, b.column)

\* the positions of the records that no later record of the same column
\* follows
LastPositions(recs) ==
    {i \in DOMAIN recs :
        \A j \in DOMAIN recs : j > i => ~SameColumn(recs[i], recs[j])}

\* the list that keeps only the last record of each (table, column)
RECURSIVE KeepLast(_, _)
KeepLast(recs, i) ==
    IF i > Len(recs)
    THEN <<>>
    ELSE (IF i \in LastPositions(recs) THEN <<recs[i]>> ELSE <<>>)
         \o KeepLast(recs, i + 1)

\* the range over records of loadSchema, from an empty e.tables
RECURSIVE LoadAll(_, _, _)
LoadAll(recs, n, idxs) ==
    IF n = 0
    THEN EmptyMap
    ELSE LoadRecord(LoadAll(recs, n - 1, idxs), recs[n], idxs)

\* a cache with its column names in their folded form, as CIStr compares them
FoldedNames(tbls) ==
    [t \in DOMAIN tbls |->
        [tbls[t] EXCEPT !.Columns =
            [i \in DOMAIN tbls[t].Columns |->
                [tbls[t].Columns[i] EXCEPT !.Name = Lower(@)]]]]

\* C21: after a reload the cache is the one loadSchema builds from the list
\* that keeps only the last record of each (table, column), and every column
\* has the parsed type and the nullability of the last record that reports it.
C21_FoldsToLastRecord ==
    (pc = "reloaded" /\ ~reloadErr) =>
        /\ FoldedNames(tables) =
               FoldedNames(LET kept == KeepLast(records, 1)
                           IN LoadAll(kept, Len(kept), indexes))
        /\ \A t \in DOMAIN tables : \A i \in DOMAIN tables[t].Columns :
               \A k \in LastPositions(records) :
                   (/\ records[k].db = dbName
                    /\ records[k].table = t
                    /\ EqString(tables[t].Columns[i].Name, records[k].column))
                   => /\ tables[t].Columns[i].Type =
                             ParseType(records[k].columnType)
                      /\ tables[t].Columns[i].Null =
                             EqualFold(records[k].nullable, "Yes")

====
